---- MODULE Spec2Model ----
(***************************************************************************)
(* TILER area reservation (drivers/media/video/tiler/tiler-reserve.c).     *)
(*                                                                         *)
(* The packing planners (tiler_best2pack, nv12_separate, nv12_A, nv12_revA,*)
(* nv12_B, nv12_C, nv12_D, nv12_together, nv12_eff) are pure functions over*)
(* fixed-width integers; the reservation loops (reserve_nv12,              *)
(* reserve_blocks) drive them against an external allocator.               *)
(*                                                                         *)
(* Integer conventions: u8/u16 stores are reduced modulo 2^8 / 2^16; the   *)
(* intermediate arithmetic is C's int arithmetic (operands are promoted).  *)
(* x >> 1 is x \div 2 (floor, also for negative int), "/" is C's division  *)
(* truncating toward zero.                                                 *)
(***************************************************************************)
EXTENDS Integers, Sequences, FiniteSets, TLC

----------------------------------------------------------------------------
(* Bounds of the model *)

\* alignments are 2^1 .. 2^MaxAlignLog slots (ALIGN is the kernel's mask
\* based macro, meaningful for power-of-two alignments)
MaxAlignLog == 5
\* block widths are 1 .. MaxW slots
MaxW == 66
\* requested block counts are 1 .. MaxN
MaxN == 3
\* block widths offered to the stride scanner are 1 .. MaxWide slots
MaxWide == 130
\* container width in slots (ops->width), set by the allocator
OpsWidth == 128

\* nv12_eff is ranked on areas 1 .. MaxSmallArea and on whole bands
\* band_8, 2 * band_8, .. MaxAreaBands * band_8
MaxSmallArea == 16
MaxAreaBands == 3
\* block widths offered to nv12_eff are 1 .. MaxEffW
MaxEffW == 8
\* pair counts offered to nv12_eff are 1 .. MaxEffN
MaxEffN == 4

\* reservations ask for 0 .. MaxReserveN blocks
MaxReserveN == 3
\* the group's list holds at most MaxAreas areas
MaxAreas == 4

VARIABLES
    fpc,    \* "call" before the function under test is applied, "ret" after
            \* a planner returned; inside a reservation loop, the position
    args,   \* its arguments
    fn,     \* the function applied
    ret,    \* what a planner returned and wrote through its pointers
    i,      \* blocks reserved so far (loop counter of the reservation)
    res,    \* result of the last allocator call of the iteration
    res2,   \* result of the 16-bit lay_2d call
    n_s,    \* count and area planned for separate areas
    area_s,
    n_t,    \* count and area planned for a shared area
    area_t,
    n_try,  \* blocks reserve_blocks tries to lay in one area
    reserved,     \* reserve_nv12's temporary list of areas
    gi_reserved   \* the group's list of reserved areas (gi->reserved)

fvars == <<fpc, args, fn, ret>>
rvars == <<i, res, res2, n_s, area_s, n_t, area_t, n_try, reserved, gi_reserved>>
vars == <<fvars, rvars>>

----------------------------------------------------------------------------
(* Program constants *)

\* 8-bit band in slots: PAGE_SIZE / slot_w of the 8-bit geometry
band_8 == 64
\* 16-bit band in slots
band_16 == 32

U8(x) == x % 256
U16(x) == x % 65536

\* kernel ALIGN(x, a): x rounded up to a multiple of a
ALIGN(x, a) == ((x + a - 1) \div a) * a
DIV_ROUND_UP(x, d) == (x + d - 1) \div d
Min(x, y) == IF x < y THEN x ELSE y
Max(x, y) == IF x > y THEN x ELSE y
\* C's integer division, truncating toward zero (d > 0)
CDiv(x, d) == IF x >= 0 THEN x \div d ELSE -((-x) \div d)

----------------------------------------------------------------------------
(* tiler_best2pack: maximum run of blocks packed next to each other *)

\* the while condition: more blocks wanted, the next block fits in the
\* container, and its stride equals the stride of a single block
\* the loop condition without its stride test
best2pack_fits_any_stride(o, w, e, b, max_n, m, ar) ==
    /\ m < max_n
    /\ o + m * e + w <= OpsWidth

best2pack_fits(o, w, e, b, max_n, m, ar) ==
    /\ m < max_n
    /\ o + m * e + w <= OpsWidth
    /\ U16(ALIGN(o + w, b)) = ALIGN(ar - o - m * e, b)

RECURSIVE best2pack_loop(_, _, _, _, _, _, _, _)
\* best is [eff, n, area]: best_eff, *n and *area so far
best2pack_loop(o, w, e, b, max_n, m, ar, best) ==
    IF best2pack_fits(o, w, e, b, max_n, m, ar)
    THEN LET m1 == m + 1
             eff == (m1 * w * 1024) \div ar
             nb == IF eff > best.eff
                   THEN [eff |-> eff, n |-> m1, area |-> ar]
                   ELSE best
         IN best2pack_loop(o, w, e, b, max_n, m1,
                           U16(ALIGN(o + m1 * e + w, b)), nb)
    ELSE best

\* n and area are the values *n and *area hold on entry; they are returned
\* unchanged when no block fits
tiler_best2pack(o, w, e, b, n, area) ==
    best2pack_loop(o, w, e, b, n, 0, U16(ALIGN(o + w, b)),
                   [eff |-> 0, n |-> n, area |-> area])

\* nv12 packing algorithm 1: 8 and 16 bit blocks in separate areas.
\* area0 is the content of *area on entry (uninitialised in the caller)
nv12_separate(o, w, a, n, area0) ==
    LET r8 == tiler_best2pack(o, w, ALIGN(w, a), band_8, n, area0)
        r16 == tiler_best2pack(o \div 2, (w + 1) \div 2, ALIGN(w, a) \div 2,
                               band_16, r8.n, r8.area)
    IN [n |-> r16.n, area |-> U16(r16.area * 3), eff8 |-> r8.eff,
        eff16 |-> r16.eff]

----------------------------------------------------------------------------
(* Pattern generators: each returns [m, area, p], m the returned count,    *)
(* p the sequence of <<8-bit offset, 16-bit offset>> pairs it wrote.       *)

RECURSIVE nv12_A_inner(_, _, _, _, _, _, _, _, _)
\* pack until upper bound u
nv12_A_inner(o, w, a, area, n, u, x, l, acc) ==
    IF x + w <= u /\ Len(acc) < n
    THEN nv12_A_inner(o, w, a, area, n, u,
                      U16(ALIGN(x + w - o, a) + o),
                      U16((area + x + w + 1) \div 2),
                      Append(acc, <<U8(x), U8(l)>>))
    ELSE [x |-> x, l |-> l, p |-> acc]

RECURSIVE nv12_A_outer(_, _, _, _, _, _, _)
nv12_A_outer(o, w, a, area, n, x, acc) ==
    IF x + w < area /\ Len(acc) < n
    THEN LET u == U16((area + x) \div 2)
             r == nv12_A_inner(o, w, a, area, n, u, x, u, acc)
         IN nv12_A_outer(o, w, a, area, n, U16(ALIGN(r.l - o, a) + o), r.p)
    ELSE acc

\* progressive packing: AAAAaaaaBBbbCc
nv12_A(o, w, a, n) ==
    LET p == nv12_A_outer(o, w, a, band_8, n, o, <<>>)
    IN [m |-> Len(p), area |-> band_8, p |-> p]

\* regressive packing: cCbbBBaaaaAAAA
nv12_revA(o, w, a, n) ==
    LET r == nv12_A((a - ((o + w) % a)) % a, w, a, n)
    IN [m |-> r.m, area |-> r.area,
        p |-> [k \in 1..r.m |->
                  <<U8(r.area - r.p[k][1] - w),
                    U8(r.area - r.p[k][2] - ((w + 1) \div 2))>>]]

\* the test guarding nv12_B's loop
nv12_B_feasible(o, w, a) ==
    LET e == U16((o + w) % a)
        o1 == U16((o \div 2) % a)
        e1 == U16(((o + w + 1) \div 2) % a)
        o2 == U16(o1 + (a \div 4))
        e2 == U16(e1 + (a \div 4))
    IN w < a /\ o < e /\ e1 <= o /\ (e2 <= o \/ o2 >= e)

RECURSIVE nv12_B_loop(_, _, _, _, _, _)
nv12_B_loop(o, w, a, area, n, acc) ==
    IF o + w <= area /\ Len(acc) < n
    THEN nv12_B_loop(U16(o + a), w, a, area, n,
                     Append(acc, <<U8(o), U8(o \div 2)>>))
    ELSE acc

\* simple layout: aAbcBdeCfgDhEFGH
nv12_B(o, w, a, n) ==
    LET p == IF nv12_B_feasible(o, w, a)
             THEN nv12_B_loop(o, w, a, band_8, n, <<>>)
             ELSE <<>>
    IN [m |-> Len(p), area |-> band_8, p |-> p]

\* number of butterfly rounds nv12_C computes (a C int)
nv12_C_rounds(o, w, a) ==
    LET area == band_8
        e == U16(ALIGN(w, a))
        o2 == U16(area - ((a - ((o + w) % a)) % a))
    IN CDiv(CDiv(Min(o2 - 2 * o, 2 * o2 - o - area), 3) - w, e) + 1

RECURSIVE nv12_C_loop(_, _, _, _, _, _, _, _, _, _)
\* k is the source's i (the round), j the pairs placed
nv12_C_loop(o, w, e, area, o2, n, m, k, j, acc) ==
    IF k < m /\ j < n
    THEN LET acc1 == Append(acc, <<U8(o + k * e),
                                    U8((o + k * e + area) \div 2)>>)
             j1 == U16(j + 1)
             acc2 == IF j1 < n
                     THEN Append(acc1, <<U8(o2 - k * e - w),
                                          U8((o2 - k * e - w) \div 2)>>)
                     ELSE acc1
         IN nv12_C_loop(o, w, e, area, o2, n, m, U16(k + 1), U16(j1 + 1), acc2)
    ELSE [m |-> j, p |-> acc]

\* butterfly layout: AAbbaaBB; the returned count is j, which the loop
\* advances twice per round even when the round wrote one pair
nv12_C(o, w, a, n) ==
    LET area == band_8
        e == U16(ALIGN(w, a))
        o2 == U16(area - ((a - ((o + w) % a)) % a))
        r == nv12_C_loop(o, w, e, area, o2, n, nv12_C_rounds(o, w, a), 0, 0, <<>>)
    IN [m |-> r.m, area |-> area, p |-> r.p]

RECURSIVE nv12_D_loop(_, _, _, _, _, _)
nv12_D_loop(o, w, a, area, n, d) ==
    IF n > 0 /\ d + o + w <= area
    THEN LET w1 == (w + 1) \div 2
             o1 == U16(((o + d) % band_8) \div 2)
             o1b == U16(o1 + ALIGN(d + o + w - o1, band_16))
         IN IF o1 + w1 <= o + d
            THEN <<<<U8(o + d), U8(o1)>>>>
            ELSE IF o1b + w1 <= area
                 THEN <<<<U8(o), U8(o1b)>>>>
                 ELSE nv12_D_loop(o, w, a, area, n, U16(d + a))
    ELSE <<>>

\* for large allocation: aA or Aa
nv12_D(o, w, a, n) ==
    LET area == U16(ALIGN(o + w, band_8))
        p == nv12_D_loop(o, w, a, area, n, 0)
    IN [m |-> Len(p), area |-> area, p |-> p]

\* the m pairs a generator result r reports: a pair the generator did not
\* write is whatever its (uninitialised) buffer holds, here <<g, g>>
Reported(r, g) ==
    [k \in 1..r.m |-> IF k <= Len(r.p) THEN r.p[k] ELSE <<g, g>>]

----------------------------------------------------------------------------
(* nv12_together: pack 8 and 16 bit blocks into the same area *)

\* special packings: n, o, w, a, area and the n offset pairs
packings ==
    << [n |-> 9, o |-> 2, w |-> 4, a |-> 4, area |-> 64,
        p |-> << <<2, 33>>, <<6, 35>>, <<10, 37>>, <<14, 39>>, <<18, 41>>,
                 <<46, 23>>, <<50, 25>>, <<54, 27>>, <<58, 29>> >>],
       [n |-> 3, o |-> 0, w |-> 12, a |-> 4, area |-> 64,
        p |-> << <<0, 32>>, <<12, 38>>, <<48, 24>> >>] >>

\* a later generator replaces the best so far only with a higher count
nv12_beats(n2, n_best) == n2 > n_best

\* one "if (n_best < n) { n2 = gen(...); if (n2 > n_best) ... }" step;
\* best is [n, area, src, p]: n_best, *area, p_best and what it points to
nv12_try(best, r, src, n) ==
    IF best.n < n
    THEN IF nv12_beats(r.m, best.n)
         THEN [n |-> r.m, area |-> r.area, src |-> src, p |-> r.p]
         ELSE [best EXCEPT !.area = r.area]
    ELSE best

\* whether special packing t can serve the request
nv12_special_fits(t, o, w, a) ==
    t.a >= a /\ o + w + ALIGN(t.o - o, a) <= t.o + t.w

RECURSIVE nv12_special(_, _, _, _, _, _)
\* traverse the special packings from entry k on
nv12_special(o, w, a, n, best, k) ==
    IF k > Len(packings)
    THEN best
    ELSE LET t == packings[k]
         IN IF t.n < best.n
            THEN best
            ELSE IF nv12_special_fits(t, o, w, a)
                 THEN [n |-> Min(t.n, n), area |-> t.area,
                       src |-> IF k = 1 THEN "T1" ELSE "T2", p |-> t.p]
                 ELSE nv12_special(o, w, a, n, best, k + 1)

\* returns [n, area, src, p]: the returned count, *area, the buffer p_best
\* points to ("NULL" when generator D decided) and the pairs written there
nv12_together(o, w, a, n) ==
    LET rA == nv12_A(o, w, a, n)
        s1 == [n |-> rA.m, area |-> rA.area, src |-> "A", p |-> rA.p]
        s2 == nv12_try(s1, nv12_revA(o, w, a, n), "rA", n)
        s3 == nv12_try(s2, nv12_B(o, w, a, n), "B", n)
        s4 == nv12_try(s3, nv12_C(o, w, a, n), "C", n)
        s5 == nv12_special(o, w, a, n, s4, 1)
    IN IF s5.n = 0
       THEN LET d == nv12_D(o, w, a, n)
            IN [n |-> d.m, area |-> d.area, src |-> "NULL", p |-> <<>>]
       ELSE s5

\* the pairs memcpy copies to the caller's packing: n_best pairs read from
\* p_best, unwritten ones being uninitialised stack (<<g, g>>)
Copied(t, g) ==
    IF t.src = "NULL" THEN <<>> ELSE Reported([m |-> t.n, p |-> t.p], g)

----------------------------------------------------------------------------
(* nv12_eff: the rank of a candidate; defined for n > 0 and area > 0 *)

\* the rank with the number of areas rounded down instead of up
nv12_eff_floor(n, w, area, n_need) ==
    268435456 - (n_need \div n) * area * 32
        + (1024 * n * ((w * 3 + 1) \div 2)) \div area

nv12_eff(n, w, area, n_need) ==
    268435456 - DIV_ROUND_UP(n_need, n) * area * 32
        + (1024 * n * ((w * 3 + 1) \div 2)) \div area

\* total area needed to place n_need pairs with this candidate
TotalArea(n, area, n_need) == DIV_ROUND_UP(n_need, n) * area

----------------------------------------------------------------------------
(* The planners applied to bounded inputs *)

Aligns == {2^k : k \in 1..MaxAlignLog}
\* uninitialised bytes / u16 words read by the code
Garbage8 == {0, 255}
Garbage16 == {0, 1, 65535}

PackRequests ==
    {[o |-> o, w |-> w, a |-> a, n |-> n] :
        o \in 0..(2^MaxAlignLog - 1), w \in 1..MaxW, a \in Aligns, n \in 1..MaxN}

\* no reservation is in progress while a planner is applied on its own
NoReservation ==
    /\ i = 0 /\ res = 0 /\ res2 = 0
    /\ n_s = 0 /\ area_s = 0 /\ n_t = 0 /\ area_t = 0 /\ n_try = 0
    /\ reserved = <<>> /\ gi_reserved = <<>>

\* assumptions of the planners: w > 0, o < a, 2 <= a
InitPack ==
    /\ fpc = "call"
    /\ args \in {r \in PackRequests : r.o < r.a}
    /\ fn = "none"
    /\ ret = <<>>
    /\ NoReservation

Generator(name, r) ==
    /\ fpc = "call"
    /\ fpc' = "ret"
    /\ fn' = name
    /\ \E g \in Garbage8 :
          ret' = [m |-> r.m, area |-> r.area, p |-> Reported(r, g),
                  written |-> Len(r.p)]
    /\ UNCHANGED <<args, rvars>>

Call_nv12_A == Generator("nv12_A", nv12_A(args.o, args.w, args.a, args.n))
Call_nv12_revA == Generator("nv12_revA", nv12_revA(args.o, args.w, args.a, args.n))
Call_nv12_B == Generator("nv12_B", nv12_B(args.o, args.w, args.a, args.n))
Call_nv12_C == Generator("nv12_C", nv12_C(args.o, args.w, args.a, args.n))
Call_nv12_D == Generator("nv12_D", nv12_D(args.o, args.w, args.a, args.n))

Call_nv12_together ==
    /\ fpc = "call"
    /\ fpc' = "ret"
    /\ fn' = "nv12_together"
    /\ LET t == nv12_together(args.o, args.w, args.a, args.n)
       IN \E g \in Garbage8 :
             ret' = [n |-> t.n, area |-> t.area, src |-> t.src,
                     packing |-> Copied(t, g)]
    /\ UNCHANGED <<args, rvars>>

NextPack ==
    \/ Call_nv12_A
    \/ Call_nv12_revA
    \/ Call_nv12_B
    \/ Call_nv12_C
    \/ Call_nv12_D
    \/ Call_nv12_together

SpecPack == InitPack /\ [][NextPack]_vars

----------------------------------------------------------------------------
(* The stride scanner and the separate-area planner *)

WideRequests ==
    {[o |-> o, w |-> w, a |-> a, n |-> n] :
        o \in 0..(2^MaxAlignLog - 1), w \in 1..MaxWide, a \in Aligns, n \in 1..MaxN}

InitBest ==
    /\ fpc = "call"
    /\ args \in {r \in WideRequests : r.o < r.a}
    /\ fn = "none"
    /\ ret = <<>>
    /\ NoReservation

\* tiler_best2pack as its callers call it: on the request itself with
\* e = ALIGN(w, a), or on the half-size plane as nv12_separate does
Call_tiler_best2pack ==
    /\ fpc = "call"
    /\ fpc' = "ret"
    /\ fn' = "tiler_best2pack"
    /\ \E b \in {band_8, band_16}, half \in BOOLEAN, g \in Garbage16 :
          LET o == IF half THEN args.o \div 2 ELSE args.o
              w == IF half THEN (args.w + 1) \div 2 ELSE args.w
              e == IF half THEN ALIGN(args.w, args.a) \div 2
                           ELSE ALIGN(args.w, args.a)
              r == tiler_best2pack(o, w, e, b, args.n, g)
          IN ret' = [eff |-> r.eff, n |-> r.n, area |-> r.area,
                     o |-> o, w |-> w, e |-> e, b |-> b]
    /\ UNCHANGED <<args, rvars>>

Call_nv12_separate ==
    /\ fpc = "call"
    /\ fpc' = "ret"
    /\ fn' = "nv12_separate"
    /\ \E g \in Garbage16 :
          ret' = nv12_separate(args.o, args.w, args.a, args.n, g)
    /\ UNCHANGED <<args, rvars>>

NextBest ==
    \/ Call_tiler_best2pack
    \/ Call_nv12_separate

SpecBest == InitBest /\ [][NextBest]_vars

----------------------------------------------------------------------------
(* The efficiency rank of two candidates *)

EffAreas == (1..MaxSmallArea) \cup {band_8 * k : k \in 1..MaxAreaBands}

InitEff ==
    /\ fpc = "call"
    /\ args \in [n1 : 1..MaxEffN, area1 : EffAreas, n2 : 1..MaxEffN,
                 area2 : EffAreas, w : 1..MaxEffW, n_need : 1..MaxEffN]
    /\ fn = "none"
    /\ ret = <<>>
    /\ NoReservation

Call_nv12_eff ==
    /\ fpc = "call"
    /\ fpc' = "ret"
    /\ fn' = "nv12_eff"
    /\ ret' = [eff1 |-> nv12_eff(args.n1, args.w, args.area1, args.n_need),
               eff2 |-> nv12_eff(args.n2, args.w, args.area2, args.n_need)]
    /\ UNCHANGED <<args, rvars>>

NextEff == Call_nv12_eff

SpecEff == InitEff /\ [][NextEff]_vars

----------------------------------------------------------------------------
(* The reservation loops against the allocator *)

\* a u32 is kept as the int with the same 32 bits (a negative int k stands
\* for 2^32 + k); this is the unsigned comparison x < y
u32_lt(x, y) == IF (x < 0) = (y < 0) THEN x < y ELSE y < 0

\* ops->analize: the band of a format
band_of(fmt) == IF fmt = "8bit" THEN band_8 ELSE band_16

\* ops->lay_2d / ops->lay_nv12 asked for n blocks: -ENOMEM, or the number
\* of blocks laid
LayResults(n) == {-12} \cup (0..n)

\* the list after the allocator laid out blocks of an area
Laid(list, fmt, out) ==
    IF out > 0 THEN Append(list, [fmt |-> fmt, n |-> out]) ELSE list

\* block geometries in slots: width, alignment and offset (with the byte
\* offset the caller passed)
ReserveWidths == {0, 1, 32, 33}
ReserveAligns == {2, 32}
ReserveOffsets == {[offs |-> 0, o |-> 0], [offs |-> 128, o |-> 2]}

ReserveRequests ==
    {[n |-> n, w |-> w, a |-> a, o |-> off.o, offs |-> off.offs,
      can_together |-> c, fmt |-> f] :
        n \in 0..MaxReserveN, w \in ReserveWidths, a \in ReserveAligns,
        off \in ReserveOffsets, c \in BOOLEAN, f \in {"8bit", "16bit"}}

InitReserve ==
    /\ fpc = "call"
    /\ fn \in {"reserve_nv12", "reserve_blocks"}
    /\ args \in {r \in ReserveRequests :
                    IF fn = "reserve_nv12" THEN r.fmt = "8bit"
                                           ELSE ~r.can_together}
    /\ ret = <<>>
    /\ i = 0 /\ res = 0 /\ res2 = 0
    /\ n_s = 0 /\ n_t = 0 /\ area_t = 0 /\ n_try = 0
    /\ area_s \in Garbage16
    /\ reserved = <<>> /\ gi_reserved = <<>>

\* reserve_nv12's parameter check, on the slot values of the request
\* (PAGE_SIZE is band_8 slots of the 8-bit format)
nv12_request_ok(r) ==
    ~(r.w = 0 \/ r.n = 0 \/ r.o >= r.a \/ r.a >= band_8)

\* a = MAX(PAGE_SIZE / MIN(band_8, band_16), a): at least two 8-bit slots
nv12_align(r) == Max(band_8 \div band_16, r.a)

reserve_nv12_enter ==
    /\ fpc = "call" /\ fn = "reserve_nv12"
    /\ IF nv12_request_ok(args)
       THEN \E ok \in BOOLEAN :    \* analize and get_gi succeed or not
               fpc' = IF ok THEN "nv12_loop" ELSE "done"
       ELSE fpc' = "done"
    /\ UNCHANGED <<args, fn, ret, rvars>>

\* the loop test and the two plans of an iteration
nv12_plan ==
    /\ fpc = "nv12_loop"
    /\ IF u32_lt(i, args.n) /\ res >= 0
       THEN LET a == nv12_align(args)
                left == U16(args.n - i)
                s == nv12_separate(args.o, args.w, a, left, area_s)
                t == nv12_together(args.o, args.w, a, left)
            IN /\ n_s' = s.n
               /\ area_s' = s.area
               /\ n_t' = IF args.can_together THEN t.n ELSE 0
               /\ area_t' = IF args.can_together THEN t.area ELSE area_t
               /\ res' = -1
               /\ fpc' = IF args.can_together THEN "nv12_compare"
                                              ELSE "nv12_lay_8bit"
       ELSE /\ fpc' = "done"
            /\ UNCHANGED <<n_s, area_s, n_t, area_t, res>>
    /\ UNCHANGED <<args, fn, ret, i, res2, n_try, reserved, gi_reserved>>

\* nv12_eff divides by its count and by its area
nv12_eff_defined(n, area) == n # 0 /\ area # 0

\* the comparison of the two ranks; a division by zero stops the kernel or
\* leaves the comparison to either outcome
nv12_compare ==
    /\ fpc = "nv12_compare"
    /\ IF nv12_eff_defined(n_s, area_s) /\ nv12_eff_defined(n_t, area_t)
       THEN LET left == U16(args.n - i)
            IN fpc' = IF nv12_eff(n_s, args.w, area_s, left)
                           > nv12_eff(n_t, args.w, area_t, left)
                      THEN "nv12_lay_8bit" ELSE "nv12_together"
       ELSE fpc' \in {"oops", "nv12_lay_8bit", "nv12_together"}
    /\ UNCHANGED <<args, fn, ret, rvars>>

nv12_lay_8bit ==
    /\ fpc = "nv12_lay_8bit"
    /\ \E out \in LayResults(n_s) :
          /\ res' = out
          /\ reserved' = Laid(reserved, "8bit", out)
    /\ fpc' = "nv12_lay_16bit"
    /\ UNCHANGED <<args, fn, ret, i, res2, n_s, area_s, n_t, area_t, n_try,
                   gi_reserved>>

nv12_lay_16bit ==
    /\ fpc = "nv12_lay_16bit"
    /\ IF res < 0
       THEN res2' = res /\ UNCHANGED reserved
       ELSE \E out \in LayResults(n_s) :
               /\ res2' = out
               /\ reserved' = Laid(reserved, "16bit", out)
    /\ fpc' = "nv12_settle"
    /\ UNCHANGED <<args, fn, ret, i, res, n_s, area_s, n_t, area_t, n_try,
                   gi_reserved>>

\* the planes of the pair were not both laid with the same count
nv12_mismatch_failure_only(r, r2) == r2 < 0

nv12_mismatch(r, r2) == r2 < 0 \/ r # r2

\* ops->release(&reserved) or ops->add_reserved(&reserved, gi)
nv12_settle ==
    /\ fpc = "nv12_settle"
    /\ IF nv12_mismatch(res, res2)
       THEN /\ reserved' = <<>>
            /\ res' = -1
            /\ UNCHANGED gi_reserved
       ELSE /\ gi_reserved' = gi_reserved \o reserved
            /\ reserved' = <<>>
            /\ UNCHANGED res
    /\ fpc' = "nv12_together"
    /\ UNCHANGED <<args, fn, ret, i, res2, n_s, area_s, n_t, area_t, n_try>>

nv12_lay_together ==
    /\ fpc = "nv12_together"
    /\ IF res < 0 /\ args.can_together /\ n_t # 0
       THEN \E out \in LayResults(n_t) :
               /\ res' = out
               /\ gi_reserved' = Laid(gi_reserved, "nv12", out)
       ELSE UNCHANGED <<res, gi_reserved>>
    /\ fpc' = "nv12_next"
    /\ UNCHANGED <<args, fn, ret, i, res2, n_s, area_s, n_t, area_t, n_try,
                   reserved>>

\* i += res
nv12_next ==
    /\ fpc = "nv12_next"
    /\ i' = i + res
    /\ fpc' = "nv12_loop"
    /\ UNCHANGED <<args, fn, ret, res, res2, n_s, area_s, n_t, area_t, n_try,
                   reserved, gi_reserved>>

\* reserve_blocks' parameter checks, on the slot values of the request; a
\* block of at most half the mapping window is left to the allocator
blocks_request_ok(r) ==
    /\ ~(r.w = 0 \/ r.n = 0 \/ r.a > band_8 \/ r.o >= r.a)
    /\ ~(r.w * 2 <= band_8)

reserve_blocks_enter ==
    /\ fpc = "call" /\ fn = "reserve_blocks"
    /\ IF blocks_request_ok(args)
       THEN \E ok \in BOOLEAN :    \* analize and get_gi succeed or not
               fpc' = IF ok THEN "blocks_loop" ELSE "done"
       ELSE fpc' = "done"
    /\ UNCHANGED <<args, fn, ret, rvars>>

\* the loop test (res is a u32) and the count to try in one area
blocks_plan ==
    /\ fpc = "blocks_loop"
    /\ IF u32_lt(i, args.n) /\ ~u32_lt(res, 0)
       THEN LET e == U16(ALIGN(args.w, args.a))
                c == Min(args.n - i, OpsWidth)
            IN /\ n_try' = tiler_best2pack(U16(args.offs), args.w, e,
                                           band_of(args.fmt), c, 0).n
               /\ res' = -1
               /\ fpc' = "blocks_lay"
       ELSE /\ fpc' = "done"
            /\ UNCHANGED <<n_try, res>>
    /\ UNCHANGED <<args, fn, ret, i, res2, n_s, area_s, n_t, area_t,
                   reserved, gi_reserved>>

\* one round of "while (n_try > 1)"; the group's list holds at most
\* MaxAreas areas
blocks_lay ==
    /\ fpc = "blocks_lay"
    /\ IF n_try > 1
       THEN \E out \in LayResults(n_try) :
               /\ out > 0 => Len(gi_reserved) < MaxAreas
               /\ res' = out
               /\ gi_reserved' = Laid(gi_reserved, args.fmt, out)
               /\ IF ~u32_lt(out, 0)
                  THEN fpc' = "blocks_next" /\ UNCHANGED n_try
                  ELSE fpc' = "blocks_lay" /\ n_try' = n_try - 1
       ELSE /\ fpc' = "blocks_next"
            /\ UNCHANGED <<res, n_try, gi_reserved>>
    /\ UNCHANGED <<args, fn, ret, i, res2, n_s, area_s, n_t, area_t, reserved>>

\* i += res
blocks_next ==
    /\ fpc = "blocks_next"
    /\ i' = i + res
    /\ fpc' = "blocks_loop"
    /\ UNCHANGED <<args, fn, ret, res, res2, n_s, area_s, n_t, area_t, n_try,
                   reserved, gi_reserved>>

\* the group's reserved areas are released after the reservation returned
unreserve_blocks ==
    /\ fpc = "done"
    /\ fpc' = "unreserved"
    /\ \E ok \in BOOLEAN :    \* get_gi finds the group or not
          gi_reserved' = IF ok THEN <<>> ELSE gi_reserved
    /\ UNCHANGED <<args, fn, ret, i, res, res2, n_s, area_s, n_t, area_t,
                   n_try, reserved>>

NextReserve ==
    \/ reserve_nv12_enter
    \/ nv12_plan
    \/ nv12_compare
    \/ nv12_lay_8bit
    \/ nv12_lay_16bit
    \/ nv12_settle
    \/ nv12_lay_together
    \/ nv12_next
    \/ reserve_blocks_enter
    \/ blocks_plan
    \/ blocks_lay
    \/ blocks_next
    \/ unreserve_blocks

SpecReserve == InitReserve /\ [][NextReserve]_vars

\* every step of the code that can be taken is eventually taken
SpecReserveFair == SpecReserve /\ WF_vars(NextReserve)

----------------------------------------------------------------------------
(* Properties of the planners *)

Generators == {"nv12_A", "nv12_revA", "nv12_B", "nv12_C", "nv12_D"}
HalfWidth(w) == (w + 1) \div 2

\* C4: every pair a generator reports as placed lies inside the area the
\* generator set: o8 + w <= area and o16 + ceil(w/2) <= area.
C4_Containment ==
    (fpc = "ret" /\ fn \in Generators) =>
        \A k \in 1..ret.m :
            /\ ret.p[k][1] + args.w <= ret.area
            /\ ret.p[k][2] + HalfWidth(args.w) <= ret.area

\* block k of a run starting at o with pitch e
BlockStart(o, e, k) == o + (k - 1) * e

\* C5 as claimed: the chosen run fits the container and the row stride
\* align(o + (k-1)*e + w, b) equals align(o + w, b) for every k in 1..m.
C5_UniformStride ==
    (fpc = "ret" /\ fn = "tiler_best2pack" /\ ret.eff # 0) =>
        \A k \in 1..ret.n :
            /\ BlockStart(ret.o, ret.e, k) + ret.w <= OpsWidth
            /\ ALIGN(BlockStart(ret.o, ret.e, k) + ret.w, ret.b)
                   = ALIGN(ret.o + ret.w, ret.b)

\* C5 amended: the chosen run fits the container, and the stride of block
\* k measured from the block's own start, align(align(o + (k-1)*e + w, b)
\* - (o + (k-1)*e), b), equals the single-block stride align(o + w, b); the
\* area returned is align(o + (m-1)*e + w, b).
C5_PerBlockStride ==
    (fpc = "ret" /\ fn = "tiler_best2pack" /\ ret.eff # 0) =>
        /\ \A k \in 1..ret.n :
              /\ BlockStart(ret.o, ret.e, k) + ret.w <= OpsWidth
              /\ ALIGN(ALIGN(BlockStart(ret.o, ret.e, k) + ret.w, ret.b)
                         - BlockStart(ret.o, ret.e, k), ret.b)
                     = ALIGN(ret.o + ret.w, ret.b)
        /\ ret.n >= 1
        /\ ret.area = ALIGN(BlockStart(ret.o, ret.e, ret.n) + ret.w, ret.b)

\* a run of several blocks whose area is wider than the single-block stride
C5_Witness ==
    /\ fpc = "ret" /\ fn = "tiler_best2pack" /\ ret.eff # 0
    /\ ret.n >= 2
    /\ ret.area > ALIGN(ret.o + ret.w, ret.b)

\* c blocks at o, o + e, .. fit the container at a uniform stride
UniformRun(o, w, e, b, c) ==
    \A k \in 1..c :
        /\ BlockStart(o, e, k) + w <= OpsWidth
        /\ ALIGN(ALIGN(BlockStart(o, e, k) + w, b) - BlockStart(o, e, k), b)
               = ALIGN(o + w, b)

\* c blocks can be laid on both planes of the request
BothPlanes(r, c) ==
    /\ UniformRun(r.o, r.w, ALIGN(r.w, r.a), band_8, c)
    /\ UniformRun(r.o \div 2, HalfWidth(r.w), ALIGN(r.w, r.a) \div 2, band_16, c)

\* C6: nv12_separate returns a count that both planes can hold as a run
\* fitting the container at uniform stride, and 0 when no count >= 1 does.
C6_SeparateCount ==
    (fpc = "ret" /\ fn = "nv12_separate") =>
        /\ BothPlanes(args, ret.n)
        /\ (~BothPlanes(args, 1)) => ret.n = 0

\* the candidates of nv12_together in its order, each with the pairs it
\* placed: the four generators, then the special packings that fit
Candidates(r) ==
    LET gen(name, g) == [src |-> name, p |-> SubSeq(g.p, 1, Min(Len(g.p), r.n))]
        special(k, name) ==
            IF nv12_special_fits(packings[k], r.o, r.w, r.a)
            THEN [src |-> name,
                  p |-> SubSeq(packings[k].p, 1, Min(packings[k].n, r.n))]
            ELSE [src |-> name, p |-> <<>>]
    IN << gen("A", nv12_A(r.o, r.w, r.a, r.n)),
          gen("rA", nv12_revA(r.o, r.w, r.a, r.n)),
          gen("B", nv12_B(r.o, r.w, r.a, r.n)),
          gen("C", nv12_C(r.o, r.w, r.a, r.n)),
          special(1, "T1"), special(2, "T2") >>

\* the first candidate with the highest count
FirstBest(cs) ==
    CHOOSE k \in 1..Len(cs) :
        /\ \A j \in 1..Len(cs) : Len(cs[j].p) <= Len(cs[k].p)
        /\ \A j \in 1..(k - 1) : Len(cs[j].p) < Len(cs[k].p)

\* C7: nv12_together returns the packing of the first candidate, in the
\* order A, reverse-A, B, C, special packings, with the highest count of
\* placed pairs (capped at n); an equal later candidate never replaces it.
C7_FirstBestWins ==
    (fpc = "ret" /\ fn = "nv12_together") =>
        LET cs == Candidates(args)
            best == cs[FirstBest(cs)]
        IN Len(best.p) > 0 =>
              /\ ret.n = Len(best.p)
              /\ ret.src = best.src
              /\ ret.packing = best.p

\* [s, s + len) and [t, t + len2) have a slot in common
Intersects(s, len, t, len2) == s < t + len2 /\ t < s + len

\* C8: no 16-bit block of nv12_B's packing intersects an 8-bit block of it,
\* and nv12_B places nothing when its feasibility test fails.
C8_NoOverlapB ==
    (fpc = "ret" /\ fn = "nv12_B") =>
        /\ \A x, y \in 1..ret.m :
              ~Intersects(ret.p[x][1], args.w, ret.p[y][2], HalfWidth(args.w))
        /\ (~nv12_B_feasible(args.o, args.w, args.a)) => ret.m = 0

BandedCandidate(n, w, area, n_need) ==
    /\ n <= n_need
    /\ area % band_8 = 0
    /\ n * w <= area
    /\ TotalArea(n, area, n_need) * 32 < 268435456

Density(n, w, area) == (1024 * n * ((w * 3 + 1) \div 2)) \div area

----------------------------------------------------------------------------
(* Properties of the reservation loops *)

\* every 8-bit area of the list is followed by its 16-bit area with the
\* same count, and every 16-bit area follows its 8-bit area
Paired(list) ==
    \A k \in 1..Len(list) :
        /\ list[k].fmt = "8bit" =>
              /\ k < Len(list)
              /\ list[k + 1].fmt = "16bit"
              /\ list[k + 1].n = list[k].n
        /\ list[k].fmt = "16bit" => (k > 1 /\ list[k - 1].fmt = "8bit")

\* C1: in reserve_nv12 the areas of the separate path reach the group's
\* list only as an 8-bit area with its 16-bit area of the same count; a
\* failed or mismatched 16-bit lay_2d releases what the iteration laid, so
\* outside the two lay_2d calls, and after the return, the temporary list
\* is empty and the group's list holds no 8-bit area without its match.
C1_NoOrphan ==
    fn = "reserve_nv12" =>
        /\ Paired(gi_reserved)
        /\ fpc \notin {"nv12_lay_16bit", "nv12_settle"} => reserved = <<>>

\* the 16-bit lay_2d returned a count and the pair was rolled back:
\* nothing of it is in either list
C1_Witness ==
    /\ fn = "reserve_nv12" /\ fpc = "nv12_together"
    /\ res = -1 /\ res2 > 0
    /\ reserved = <<>> /\ gi_reserved = <<>>

\* C2: every call of reserve_nv12 and of reserve_blocks comes to its end
\* (returns, or is stopped at a division by zero), whatever the allocator
\* returns.
C2_Terminates == <>(fpc \in {"done", "unreserved", "oops"})

\* C3: the inner retry of reserve_blocks ends only when a lay_2d call
\* succeeded (res holds a count) or the count to try has dropped to 1, so a
\* failure at a count above 2 is followed by a call with one block less.
C3_RetryWithOneLess ==
    (fn = "reserve_blocks" /\ fpc = "blocks_next") => (res >= 0 \/ n_try <= 1)

\* C10: reserve_nv12 never evaluates nv12_eff with a zero count or a zero
\* area, and so never divides by zero.
C10_NoZeroEff ==
    /\ fpc = "nv12_compare" =>
          (nv12_eff_defined(n_s, area_s) /\ nv12_eff_defined(n_t, area_t))
    /\ fpc # "oops"

====
